---- MODULE Spec2Model ----
(***************************************************************************)
(* Model of the checkout transaction and the order/shipment lifecycle of   *)
(* the storefront backend (src/ecommerce_app.jsx: backend/routes/          *)
(* checkout.js and backend/routes/orders.js over the mongoose models).     *)
(*                                                                         *)
(* Node runs one handler at a time and switches handlers only at an        *)
(* `await`.  Every action below is therefore one store operation of a      *)
(* handler together with the synchronous code that follows it up to the    *)
(* next `await` (or the response).                                         *)
(*                                                                         *)
(* The store is written through mongoose documents.  `doc.save()` sends    *)
(* the paths the handler changed and nothing else: an assigned number or   *)
(* string is written as it stands, whatever the store holds by then.  The  *)
(* items array of a cart is versioned (`__v`): a pushed line is appended   *)
(* to the stored array and moves the version on; a replaced array, and a   *)
(* write to a line by its position, are made only if the stored version    *)
(* is the one the document was read with, and reject otherwise.            *)
(***************************************************************************)
EXTENDS Integers, Sequences, FiniteSets, TLC

\* ------------------------------------------------------------ bounds ----
MaxStock == 2      \* largest initial stock of a product, and cart quantity
MaxClock == 2      \* the milliseconds the clock can advance in one behaviour

\* The checkout requests of one behaviour, numbered in arrival order; a
\* request's number also stands for the ids of the documents it creates.
Reqs     == {1, 2}
\* The shipment status-update handlers that can run at the same time.
Upds     == {1, 2}
Users    == {"u1", "u2"}
Products == {"p1", "p2"}
\* The idempotency keys a checkout request may carry.  The handler reads
\* `paymentMethod` and `shippingAddress` from the body and nothing else.
Keys     == {"k1"}

None     == "none"

\* ------------------------------------------------- documents of the store
PaymentMethods == {"cod", "card"}

Statuses == {"Created", "Shipped", "InTransit", "Delivered"}

\* Product.codAvailable of the two catalogue entries.
CodAvailable == [p \in Products |-> p = "p1"]

\* Product.price of the catalogue entries, and the prices a catalogue
\* write may set.
Prices    == {3, 5}
Repriced  == {"p1"}
InitPrice == [p \in Products |-> IF p = "p1" THEN 5 ELSE 3]

VARIABLES
    stock,      \* Product.stock of every product, as stored
    initStock,  \* the stock every product started with
    price,      \* Product.price of every product, as stored
    carts,      \* every user's Cart document: [exists, items, v]
    shipments,  \* the Shipment collection: id -> [status, trackingNumber]
    orders,     \* the Order collection: id -> order document
    now,        \* the clock `Date.now()` reads, in milliseconds
    pc,         \* where each checkout handler stands
    req,        \* each checkout request: [user, paymentMethod, key]
    cart,       \* each checkout handler's populated cart (its `cart.items`)
    cartv,      \* each checkout handler's cart version (its `cart.__v`)
    idx,        \* each checkout handler's position in its current loop
    product,    \* each checkout handler's `product.stock` as last read
    resp,       \* each checkout handler's response, NoResp before it is sent
    upc,        \* where each shipment-update handler stands
    ureq,       \* each shipment-update handler's request: [order, status, caller]
    ushipment,  \* each shipment-update handler's `shipment`: [id, status]
    uresp,      \* each shipment-update handler's latest status code, 0 while it runs
    apc,        \* where the cart-add handler stands
    areq,       \* the cart-add request: [user, product, quantity]
    acart,      \* the cart-add handler's `cart`: [items, v]
    tresp       \* the latest answer of the tracking read

vars == <<stock, initStock, price, carts, shipments, orders, now,
          pc, req, cart, cartv, idx, product, resp,
          upc, ureq, ushipment, uresp, apc, areq, acart, tresp>>

storeVars    == <<stock, price, carts, shipments, orders>>
checkoutVars == <<pc, req, cart, cartv, idx, product, resp>>
updateVars   == <<upc, ureq, ushipment, uresp>>
addVars      == <<apc, areq, acart>>
\* What a checkout handler's step leaves alone outside the store and itself.
otherVars    == <<initStock, now, updateVars, addVars, tresp>>

\* ---------------------------------------------------------------- carts
CartItem(p, q) == [product |-> p, quantity |-> q]

Quantities == 1..MaxStock

\* The item lists /cart/add can build over the catalogue: one line per
\* product, in the order the products were first added.
CartContents ==
    {<<>>}
    \cup { <<CartItem(p, q)>> : p \in Products, q \in Quantities }
    \cup { <<CartItem(pp[1], qq[1]), CartItem(pp[2], qq[2])>> :
             pp \in {x \in Products \X Products : x[1] # x[2]},
             qq \in Quantities \X Quantities }

\* A cart document as `Cart.create` and /cart/add leave it: its items and
\* its version (`__v`), which mongoose keeps for the items array.
CartDoc(items, v) == [exists |-> TRUE, items |-> items, v |-> v]

NoCart == [exists |-> FALSE, items |-> <<>>, v |-> 0]

CartDocs == {NoCart} \cup { CartDoc(c, 0) : c \in CartContents }

\* The carts the checkout specification starts from: any cart for u1, and
\* for u2 no cart at all or one unit of p1.
InitCarts ==
    {c \in [Users -> CartDocs] :
        c["u2"] \in {NoCart, CartDoc(<<CartItem("p1", 1)>>, 0)}}

\* `.populate('items.product')`: every line with its product document.
Populate(items) ==
    [j \in 1..Len(items) |->
        [product  |-> items[j].product,
         quantity |-> items[j].quantity,
         price    |-> price[items[j].product],
         cod      |-> CodAvailable[items[j].product]]]

\* ------------------------------------------------------------ responses
NoReq  == [user |-> None, paymentMethod |-> None, key |-> None]

NoResp == [status |-> 0, error |-> None, product |-> None,
           orderId |-> 0, paymentRequired |-> FALSE]

EmptyCartResp == [NoResp EXCEPT !.status = 400, !.error = "Empty cart"]

NotEnoughStockResp(p) ==
    [NoResp EXCEPT !.status = 400, !.error = "Not enough stock", !.product = p]

OrderCreatedResp(id, pm) ==
    [NoResp EXCEPT !.status = 200, !.orderId = id,
                   !.paymentRequired = (pm # "cod")]

\* ------------------------------------------------------------- checkout
\* The emptiness test without its length check.
CartIsMissing(c) == ~c.exists

\* `!cart || cart.items.length===0`
CartIsEmpty(c) == ~c.exists \/ Len(c.items) = 0

\* The stock comparison off by one.
StockShortOrEqual(st, q) == st <= q

\* `product.stock < item.quantity`
StockShort(st, q) == st < q

\* `cart.items.map(i => ({product, quantity, priceAtPurchase, cod}))`
OrderItems(c) ==
    [j \in 1..Len(c) |->
        [product         |-> c[j].product,
         quantity        |-> c[j].quantity,
         priceAtPurchase |-> c[j].price,
         cod             |-> c[j].cod]]

\* The reduction without the quantity factor.
RECURSIVE TotalOfPrices(_)
TotalOfPrices(items) ==
    IF items = <<>> THEN 0
    ELSE TotalOfPrices(SubSeq(items, 1, Len(items) - 1))
         + items[Len(items)].priceAtPurchase

\* `items.reduce((s,it) => s + it.quantity*it.priceAtPurchase, 0)`
RECURSIVE OrderTotal(_)
OrderTotal(items) ==
    IF items = <<>> THEN 0
    ELSE OrderTotal(SubSeq(items, 1, Len(items) - 1))
         + items[Len(items)].quantity * items[Len(items)].priceAtPurchase

\* The initial status that takes a prepaid method for a payment made.
PaidUnlessCod(pm) == IF pm = "cod" THEN "Pending" ELSE "Paid"

\* `paymentMethod==='cod' ? 'Pending' : 'Processing'`
InitialPaymentStatus(pm) == IF pm = "cod" THEN "Pending" ELSE "Processing"

\* A handler that has answered, or whose promise was rejected, keeps none of
\* its locals.
Forget(r) ==
    /\ cart' = [cart EXCEPT ![r] = <<>>]
    /\ cartv' = [cartv EXCEPT ![r] = 0]
    /\ idx' = [idx EXCEPT ![r] = 0]
    /\ product' = [product EXCEPT ![r] = 0]

\* The request arrives (after every request of a lower number) and the
\* handler reads the caller's cart; an absent or empty cart is answered 400
\* at once.
ReadCart(r, u, pm, k) ==
    /\ pc[r] = "idle"
    /\ \A q \in Reqs : q < r => pc[q] # "idle"
    /\ req' = [req EXCEPT ![r] = [user |-> u, paymentMethod |-> pm, key |-> k]]
    /\ IF CartIsEmpty(carts[u])
       THEN /\ resp' = [resp EXCEPT ![r] = EmptyCartResp]
            /\ pc' = [pc EXCEPT ![r] = "done"]
            /\ UNCHANGED <<cart, cartv>>
       ELSE /\ cart' = [cart EXCEPT ![r] = Populate(carts[u].items)]
            /\ cartv' = [cartv EXCEPT ![r] = carts[u].v]
            /\ pc' = [pc EXCEPT ![r] = "validate"]
            /\ UNCHANGED resp
    /\ UNCHANGED <<idx, product>>
    /\ UNCHANGED <<storeVars, otherVars>>

\* One turn of the validation loop: read the product, compare its stock.
ValidateStock(r) ==
    /\ pc[r] = "validate"
    /\ LET item == cart[r][idx[r] + 1] IN
       IF StockShort(stock[item.product], item.quantity)
       THEN /\ resp' = [resp EXCEPT ![r] = NotEnoughStockResp(item.product)]
            /\ pc' = [pc EXCEPT ![r] = "done"]
            /\ Forget(r)
       ELSE /\ IF idx[r] + 1 < Len(cart[r])
               THEN /\ idx' = [idx EXCEPT ![r] = idx[r] + 1]
                    /\ UNCHANGED pc
               ELSE /\ idx' = [idx EXCEPT ![r] = 0]
                    /\ pc' = [pc EXCEPT ![r] = "decRead"]
            /\ UNCHANGED <<resp, cart, cartv, product>>
    /\ UNCHANGED <<storeVars, req, otherVars>>

\* One turn of the decrement loop, first half: read the product again.
DecrementRead(r) ==
    /\ pc[r] = "decRead"
    /\ product' = [product EXCEPT ![r] = stock[cart[r][idx[r] + 1].product]]
    /\ pc' = [pc EXCEPT ![r] = "decSave"]
    /\ UNCHANGED <<storeVars, req, cart, cartv, idx, resp, otherVars>>

\* `product.stock -= item.quantity`
Decremented(st, q) == st - q

\* One turn of the decrement loop, second half: save the product read.
DecrementSave(r) ==
    /\ pc[r] = "decSave"
    /\ LET item == cart[r][idx[r] + 1] IN
       stock' = [stock EXCEPT ![item.product] = Decremented(product[r], item.quantity)]
    /\ idx' = [idx EXCEPT ![r] = idx[r] + 1]
    /\ pc' = [pc EXCEPT ![r] =
                 IF idx[r] + 1 < Len(cart[r]) THEN "decRead" ELSE "shipment"]
    /\ UNCHANGED <<price, carts, shipments, orders>>
    /\ UNCHANGED <<req, cart, cartv, product, resp, otherVars>>

\* `TRK-${Date.now()}`: the prefix and the clock's reading.
TrackingNumber(t) == <<"TRK", t>>

\* `Shipment.create({ trackingNumber, status: 'Created' })`.  The handler's
\* number stands for the new document's id.
ShipmentCreate(r) ==
    /\ pc[r] = "shipment"
    /\ shipments' = shipments @@
           (r :> [status |-> "Created", trackingNumber |-> TrackingNumber(now)])
    /\ pc' = [pc EXCEPT ![r] = "order"]
    /\ UNCHANGED <<stock, price, carts, orders>>
    /\ UNCHANGED <<req, cart, cartv, idx, product, resp, otherVars>>

\* The document `Order.create` stores.
NewOrder(r) ==
    [user          |-> req[r].user,
     items         |-> OrderItems(cart[r]),
     total         |-> OrderTotal(OrderItems(cart[r])),
     paymentMethod |-> req[r].paymentMethod,
     paymentStatus |-> InitialPaymentStatus(req[r].paymentMethod),
     shipment      |-> r]

OrderCreate(r) ==
    /\ pc[r] = "order"
    /\ orders' = orders @@ (r :> NewOrder(r))
    /\ pc' = [pc EXCEPT ![r] = "clearCart"]
    /\ UNCHANGED <<stock, price, carts, shipments>>
    /\ UNCHANGED <<req, cart, cartv, idx, product, resp, otherVars>>

\* `cart.items = []; await cart.save()` and the response.  Mongoose saves a
\* replaced array under the version the document was read with and moves the
\* version on; when the stored version is another one by then, the save
\* rejects (VersionError) and the handler ends like on any rejected store
\* operation.
ClearCart(r) ==
    /\ pc[r] = "clearCart"
    /\ IF carts[req[r].user].v = cartv[r]
       THEN /\ carts' = [carts EXCEPT ![req[r].user] = CartDoc(<<>>, cartv[r] + 1)]
            /\ resp' = [resp EXCEPT ![r] = OrderCreatedResp(r, req[r].paymentMethod)]
            /\ pc' = [pc EXCEPT ![r] = "done"]
       ELSE /\ pc' = [pc EXCEPT ![r] = "failed"]
            /\ UNCHANGED <<carts, resp>>
    /\ Forget(r)
    /\ UNCHANGED <<stock, price, shipments, orders>>
    /\ UNCHANGED <<req, otherVars>>

\* A store operation the handler awaits rejects: the handler has no
\* try/catch, so it ends there, with no response and nothing undone.
InFlight == {"validate", "decRead", "decSave", "shipment", "order", "clearCart"}

StoreFail(r) ==
    /\ pc[r] \in InFlight
    /\ pc' = [pc EXCEPT ![r] = "failed"]
    /\ Forget(r)
    /\ UNCHANGED <<storeVars, req, resp, otherVars>>

\* ------------------------------------------------------------ catalogue
\* A catalogue write changes a product's price.
SetPrice(p, v) ==
    /\ price[p] # v
    /\ price' = [price EXCEPT ![p] = v]
    /\ UNCHANGED <<stock, carts, shipments, orders>>
    /\ UNCHANGED <<checkoutVars, otherVars>>

\* ------------------------------------------------------------ /cart/add
NoAdd  == [user |-> None, product |-> None, quantity |-> 0]
NoRead == [items |-> <<>>, v |-> 0]

\* The quantity the storefront's add button sends, which is also the default.
AddQuantities == {1}

\* `cart.items.findIndex(i => i.product.toString() === productId)`, counted
\* from 1; 0 when no line has the product.
ItemIndex(items, p) ==
    IF \E j \in 1..Len(items) : items[j].product = p
    THEN CHOOSE j \in 1..Len(items) :
             /\ items[j].product = p
             /\ \A i \in 1..(j - 1) : items[i].product # p
    ELSE 0

\* The handler is free again once it has answered.  `Cart.findOne`: the
\* caller's cart if there is one.  No line is added to beyond MaxStock units.
AddFind(u, p, q) ==
    /\ apc = "idle"
    /\ LET i == ItemIndex(carts[u].items, p) IN
       i > 0 => carts[u].items[i].quantity + q <= MaxStock
    /\ areq' = [user |-> u, product |-> p, quantity |-> q]
    /\ IF carts[u].exists
       THEN /\ acart' = [items |-> carts[u].items, v |-> carts[u].v]
            /\ apc' = "save"
       ELSE /\ acart' = NoRead
            /\ apc' = "create"
    /\ UNCHANGED <<storeVars, initStock, now, checkoutVars, updateVars, tresp>>

\* `Cart.create({ user, items: [] })`
AddCreate ==
    /\ apc = "create"
    /\ carts' = [carts EXCEPT ![areq.user] = CartDoc(<<>>, 0)]
    /\ acart' = NoRead
    /\ apc' = "save"
    /\ UNCHANGED <<stock, price, shipments, orders>>
    /\ UNCHANGED <<initStock, now, checkoutVars, updateVars, areq, tresp>>

\* The cart after `cart.save()` of a pushed line: mongoose sends the push
\* alone, which lands behind the lines stored by then, and moves the
\* version on.
Pushed(doc, p, q) == CartDoc(Append(doc.items, CartItem(p, q)), doc.v + 1)

\* The cart after `cart.save()` of `cart.items[i].quantity += quantity`:
\* mongoose sends the line's new quantity, computed from the quantity read.
Raised(doc, i, read, q) ==
    [doc EXCEPT !.items[i].quantity = read.items[i].quantity + q]

\* `cart.save()` and the response.  The write to a line by its position is
\* made under the version the document was read with, and rejects
\* (VersionError) when the stored version is another one.
AddSave ==
    /\ apc = "save"
    /\ LET u == areq.user
           i == ItemIndex(acart.items, areq.product)
       IN  carts' =
             IF i = 0
             THEN [carts EXCEPT ![u] = Pushed(carts[u], areq.product, areq.quantity)]
             ELSE IF carts[u].v = acart.v
                  THEN [carts EXCEPT ![u] = Raised(carts[u], i, acart, areq.quantity)]
                  ELSE carts
    /\ apc' = "idle"
    /\ areq' = NoAdd
    /\ acart' = NoRead
    /\ UNCHANGED <<stock, price, shipments, orders>>
    /\ UNCHANGED <<initStock, now, checkoutVars, updateVars, tresp>>

\* ---------------------------------------------------------------- clock
\* A millisecond passes.
Tick ==
    /\ now < MaxClock
    /\ now' = now + 1
    /\ UNCHANGED <<storeVars, initStock, checkoutVars, updateVars, addVars, tresp>>

\* -------------------------------------------------------- tracking read
NoTracking == [order |-> 0, status |-> 0, trackingNumber |-> <<>>,
               shipmentStatus |-> None]

\* `res.status(404).json({ error: 'Order not found' })`
NotFoundResp(id) == [NoTracking EXCEPT !.order = id, !.status = 404]

\* `order.shipment.trackingNumber` of an order whose populated shipment is
\* null throws: the handler ends with no response.
ThrownResp(id) == [NoTracking EXCEPT !.order = id, !.status = -1]

\* The shipment's status as the schema defaults it, whatever it has become.
TrackingRespAsCreated(id, sh) ==
    [order |-> id, status |-> 200, trackingNumber |-> sh.trackingNumber,
     shipmentStatus |-> "Created"]

\* `res.json({ trackingNumber: order.shipment.trackingNumber,
\*             status: order.shipment.status })`
TrackingResp(id, sh) ==
    [order |-> id, status |-> 200, trackingNumber |-> sh.trackingNumber,
     shipmentStatus |-> sh.status]

\* `GET /:id/tracking`: `Order.findById(id).populate('shipment')` and the
\* response, kept with the id it answers.
TrackingRead(id) ==
    /\ tresp' = IF id \notin DOMAIN orders THEN NotFoundResp(id)
                ELSE IF orders[id].shipment \notin DOMAIN shipments THEN ThrownResp(id)
                ELSE TrackingResp(id, shipments[orders[id].shipment])
    /\ UNCHANGED <<storeVars, initStock, now, checkoutVars, updateVars, addVars>>

\* ------------------------------------------------- shipment status update
NoUpd      == [order |-> 0, status |-> None, caller |-> None]
NoShipment == [id |-> 0, status |-> None]

\* The accounts that call the update route, every one of them authenticated:
\* a customer and an operator.
Callers == {"u1", "admin"}

\* A handler is free again once it has answered.  `Order.findById(id)`: an
\* unknown id is answered 404.
UpdateFindOrder(a, c, id, st) ==
    /\ upc[a] = "idle"
    /\ IF id \in DOMAIN orders
       THEN /\ ureq' = [ureq EXCEPT ![a] = [order |-> id, status |-> st, caller |-> c]]
            /\ ushipment' = [ushipment EXCEPT ![a] =
                                [id |-> orders[id].shipment, status |-> None]]
            /\ upc' = [upc EXCEPT ![a] = "findShipment"]
            /\ uresp' = [uresp EXCEPT ![a] = 0]
       ELSE /\ uresp' = [uresp EXCEPT ![a] = 404]
            /\ UNCHANGED <<upc, ureq, ushipment>>
    /\ UNCHANGED <<storeVars, initStock, now, checkoutVars, addVars, tresp>>

\* `Shipment.findById(order.shipment)`
UpdateFindShipment(a) ==
    /\ upc[a] = "findShipment"
    /\ ushipment' = [ushipment EXCEPT ![a].status = shipments[ushipment[a].id].status]
    /\ upc' = [upc EXCEPT ![a] = "save"]
    /\ UNCHANGED <<storeVars, initStock, now, checkoutVars, ureq, uresp, addVars, tresp>>

\* The save of a handler that also writes to the order it looked up.
UpdateSaveOnOrder(a) ==
    /\ upc[a] = "save"
    /\ shipments' = [shipments EXCEPT ![ushipment[a].id].status = ureq[a].status]
    /\ orders' = [orders EXCEPT ![ureq[a].order].total = 0]
    /\ uresp' = [uresp EXCEPT ![a] = 200]
    /\ upc' = [upc EXCEPT ![a] = "idle"]
    /\ ureq' = [ureq EXCEPT ![a] = NoUpd]
    /\ ushipment' = [ushipment EXCEPT ![a] = NoShipment]
    /\ UNCHANGED <<stock, price, carts>>
    /\ UNCHANGED <<initStock, now, checkoutVars, addVars, tresp>>

\* The status the handler assigns: whatever the request names.
AssignedStatus(current, requested) == requested

\* `shipment.status = status; await shipment.save()` and the response.  A
\* save writes the paths whose value the assignment changed.
UpdateSave(a) ==
    /\ upc[a] = "save"
    /\ LET new == AssignedStatus(ushipment[a].status, ureq[a].status) IN
       shipments' = IF new # ushipment[a].status
                    THEN [shipments EXCEPT ![ushipment[a].id].status = new]
                    ELSE shipments
    /\ uresp' = [uresp EXCEPT ![a] = 200]
    /\ upc' = [upc EXCEPT ![a] = "idle"]
    /\ ureq' = [ureq EXCEPT ![a] = NoUpd]
    /\ ushipment' = [ushipment EXCEPT ![a] = NoShipment]
    /\ UNCHANGED <<stock, price, carts, orders>>
    /\ UNCHANGED <<initStock, now, checkoutVars, addVars, tresp>>

\* ----------------------------------------------------------------- spec
InitHandlers ==
    /\ pc = [r \in Reqs |-> "idle"]
    /\ req = [r \in Reqs |-> NoReq]
    /\ cart = [r \in Reqs |-> <<>>]
    /\ cartv = [r \in Reqs |-> 0]
    /\ idx = [r \in Reqs |-> 0]
    /\ product = [r \in Reqs |-> 0]
    /\ resp = [r \in Reqs |-> NoResp]
    /\ upc = [a \in Upds |-> "idle"]
    /\ ureq = [a \in Upds |-> NoUpd]
    /\ ushipment = [a \in Upds |-> NoShipment]
    /\ uresp = [a \in Upds |-> 0]
    /\ apc = "idle"
    /\ areq = NoAdd
    /\ acart = NoRead
    /\ tresp = NoTracking

Init ==
    /\ initStock \in [Products -> 0..MaxStock]
    /\ stock = initStock
    /\ price = InitPrice
    /\ carts \in InitCarts
    /\ shipments = <<>>
    /\ orders = <<>>
    /\ now = 0
    /\ InitHandlers

CheckoutNext ==
    \/ \E r \in Reqs, u \in Users, pm \in PaymentMethods, k \in Keys :
          ReadCart(r, u, pm, k)
    \/ \E r \in Reqs : ValidateStock(r)
    \/ \E r \in Reqs : DecrementRead(r)
    \/ \E r \in Reqs : DecrementSave(r)
    \/ \E r \in Reqs : ShipmentCreate(r)
    \/ \E r \in Reqs : OrderCreate(r)
    \/ \E r \in Reqs : ClearCart(r)
    \/ \E r \in Reqs : StoreFail(r)
    \/ \E p \in Repriced, v \in Prices : SetPrice(p, v)

\* One status-update request at a time, from any caller.
UpdateNext ==
    \/ \E c \in Callers, id \in Reqs, st \in Statuses : UpdateFindOrder(1, c, id, st)
    \/ UpdateFindShipment(1)
    \/ UpdateSave(1)

Next == CheckoutNext \/ UpdateNext

\* The checkout handlers and the catalogue, from every initial stock and cart.
CheckoutSpec == Init /\ [][CheckoutNext]_vars

\* Every handler, from full stock and one cart per user.
LifecycleInit ==
    /\ Init
    /\ initStock = [p \in Products |-> MaxStock]
    /\ carts = [u \in Users |->
                   CartDoc(IF u = "u1"
                           THEN <<CartItem("p1", 1), CartItem("p2", 1)>>
                           ELSE <<CartItem("p1", 1)>>, 0)]

Spec == LifecycleInit /\ [][Next]_vars

\* ------------------------------------------- one customer's checkouts ----
\* The specifications below follow one customer, u1, whose cart holds one
\* unit of p1, through checkout together with the other handlers.
CustomerInit ==
    /\ Init
    /\ initStock = [p \in Products |-> MaxStock]
    /\ carts = [u \in Users |->
                   IF u = "u1" THEN CartDoc(<<CartItem("p1", 1)>>, 0) ELSE NoCart]

\* u1's checkout requests, none of whose store operations rejects.
CustomerNext ==
    \/ \E r \in Reqs, pm \in PaymentMethods : ReadCart(r, "u1", pm, "k1")
    \/ \E r \in Reqs : ValidateStock(r)
    \/ \E r \in Reqs : DecrementRead(r)
    \/ \E r \in Reqs : DecrementSave(r)
    \/ \E r \in Reqs : ShipmentCreate(r)
    \/ \E r \in Reqs : OrderCreate(r)
    \/ \E r \in Reqs : ClearCart(r)

\* The payment methods of the storefront's selector, and the values a
\* request body can carry in their place.
Recognised == {"card", "upi", "netbanking", "cod"}
Submitted  == Recognised \cup {"wallet"}

PaymentNext ==
    \/ \E r \in Reqs, pm \in Submitted : ReadCart(r, "u1", pm, "k1")
    \/ \E r \in Reqs : ValidateStock(r)
    \/ \E r \in Reqs : DecrementRead(r)
    \/ \E r \in Reqs : DecrementSave(r)
    \/ \E r \in Reqs : ShipmentCreate(r)
    \/ \E r \in Reqs : OrderCreate(r)
    \/ \E r \in Reqs : ClearCart(r)

\* Checkout under every value of `paymentMethod`.
PaymentSpec == CustomerInit /\ [][PaymentNext]_vars

\* The operator marks shipments as shipped.
ShipNext ==
    \/ \E id \in Reqs : UpdateFindOrder(1, "admin", id, "Shipped")
    \/ UpdateFindShipment(1)
    \/ UpdateSave(1)

ReadNext == \E id \in Reqs : TrackingRead(id)

\* Checkout, the clock, the operator and the tracking read.
TrackingSpec == CustomerInit /\ [][CustomerNext \/ ShipNext \/ Tick \/ ReadNext]_vars

\* The operator's status-update requests, two at a time.
ConcurrentUpdateNext ==
    \/ \E a \in Upds, id \in Reqs, st \in Statuses :
          UpdateFindOrder(a, "admin", id, st)
    \/ \E a \in Upds : UpdateFindShipment(a)
    \/ \E a \in Upds : UpdateSave(a)

UpdateSpec == CustomerInit /\ [][CustomerNext \/ ConcurrentUpdateNext]_vars

\* No user has a cart yet.
NoCartInit ==
    /\ Init
    /\ initStock = [p \in Products |-> MaxStock]
    /\ carts = [u \in Users |-> NoCart]

\* u1 adds to the cart.
AddNext ==
    \/ \E p \in Products, q \in AddQuantities : AddFind("u1", p, q)
    \/ AddCreate
    \/ AddSave

\* Checkout and /cart/add of one customer, who starts without a cart.
CartSpec == NoCartInit /\ [][CustomerNext \/ AddNext]_vars

\* u1 adds units of p1 to the cart.
RefillNext ==
    \/ \E q \in AddQuantities : AddFind("u1", "p1", q)
    \/ AddCreate
    \/ AddSave

RepriceNext == \E p \in Repriced, v \in Prices : SetPrice(p, v)

\* An order's life among the other operations: checkouts, cart adds, price
\* changes and status updates.
OrderSpec == NoCartInit /\ [][CustomerNext \/ RefillNext \/ RepriceNext \/ ShipNext]_vars

\* ======================================================== properties ====
RECURSIVE QuantityOf(_, _)
QuantityOf(items, p) ==
    IF items = <<>> THEN 0
    ELSE (IF Head(items).product = p THEN Head(items).quantity ELSE 0)
         + QuantityOf(Tail(items), p)

RECURSIVE SoldIn(_, _)
SoldIn(ids, p) ==
    IF ids = {} THEN 0
    ELSE LET o == CHOOSE x \in ids : TRUE
         IN  QuantityOf(orders[o].items, p) + SoldIn(ids \ {o}, p)

\* Units of p over all created orders.
Sold(p) == SoldIn(DOMAIN orders, p)

\* C1 (no oversell): with no restock, the quantities of a product over the
\* checkouts that created an order never add up to more than its initial
\* stock.
C1_NoOversell == \A p \in Products : Sold(p) <= initStock[p]

\* C2: the stored stock of every product is never negative.
C2_StockNonNegative == \A p \in Products : stock[p] >= 0

\* C3 (atomicity): once a checkout has failed, and no other checkout has
\* run, no order and no shipment of that attempt exists and every stock has
\* its value from before the attempt.
C3_FailedCheckoutLeavesNothing ==
    \A r \in Reqs :
        (pc[r] = "failed" /\ \A q \in Reqs \ {r} : pc[q] = "idle")
        => /\ stock = initStock
           /\ r \notin DOMAIN orders
           /\ r \notin DOMAIN shipments

RECURSIVE LineSum(_)
LineSum(items) ==
    IF items = <<>> THEN 0
    ELSE Head(items).quantity * Head(items).priceAtPurchase + LineSum(Tail(items))

TotalIsLineSum == \A o \in DOMAIN orders : orders[o].total = LineSum(orders[o].items)

\* The step in which handler r reads its cart and goes on.
CartRead(r) == pc[r] = "idle" /\ pc'[r] = "validate"

\* The step in which handler r's order appears.
OrderCreated(r) == r \notin DOMAIN orders /\ r \in DOMAIN orders'

\* C4 (total correctness): every order's total is the sum of quantity x
\* priceAtPurchase over its lines; priceAtPurchase is the stored price the
\* checkout read with its cart; and neither changes once the order exists,
\* whatever the product's price becomes.
C4_TotalCorrect ==
    /\ []TotalIsLineSum
    /\ [][\A r \in Reqs :
            /\ CartRead(r) =>
                 \A j \in 1..Len(cart'[r]) :
                     cart'[r][j].price = price[cart'[r][j].product]
            /\ OrderCreated(r) =>
                 /\ Len(orders'[r].items) = Len(cart[r])
                 /\ \A j \in 1..Len(cart[r]) :
                      /\ orders'[r].items[j].quantity = cart[r][j].quantity
                      /\ orders'[r].items[j].priceAtPurchase = cart[r][j].price
            /\ r \in DOMAIN orders =>
                 /\ orders'[r].total = orders[r].total
                 /\ orders'[r].items = orders[r].items]_vars

\* C4 witness: an order of two lines, one of quantity 2, whose product's
\* price has changed since it was bought.
C4_Witness ==
    \E o \in DOMAIN orders :
        /\ Len(orders[o].items) = 2
        /\ \E j \in 1..2 :
             /\ orders[o].items[j].quantity = 2
             /\ orders[o].items[j].priceAtPurchase # price[orders[o].items[j].product]

StatusSuccessor ==
    {<<"Created", "Shipped">>, <<"Shipped", "InTransit">>, <<"InTransit", "Delivered">>}

\* C5 (shipment monotonicity): a shipment's status only ever moves to its
\* immediate successor in Created, Shipped, InTransit, Delivered.
C5_ShipmentMonotone ==
    [][\A s \in DOMAIN shipments :
          shipments'[s].status # shipments[s].status
          => <<shipments[s].status, shipments'[s].status>> \in StatusSuccessor]_vars

\* C6 (idempotent checkout): of two checkout calls of one user carrying the
\* same idempotency key, at most one creates an order, and the second
\* answers what the first answered.
C6_IdempotentCheckout ==
    \A r, q \in Reqs :
        (r < q /\ req[r].key # None /\ req[q].key = req[r].key
               /\ req[q].user = req[r].user)
        => /\ ~(r \in DOMAIN orders /\ q \in DOMAIN orders)
           /\ (resp[r] # NoResp /\ resp[q] # NoResp) => resp[q] = resp[r]

\* The step in which handler r reads one product in its validation loop.
Validated(r) ==
    /\ pc[r] = "validate"
    /\ pc'[r] # "failed"
    /\ pc'[r] # "validate" \/ idx'[r] # idx[r]

\* C7: when the validation loop reads a line whose product's stock is below
\* the line's quantity, the checkout answers 400 "Not enough stock" for that
\* product, which is the first such line in cart order (every line before it
\* was read and found in stock), and stock, orders, shipments and carts stay
\* as they are; a line in stock draws no answer.
C7_InsufficientStockNoEffect ==
    [][\A r \in Reqs :
          Validated(r) =>
            LET item == cart[r][idx[r] + 1] IN
            IF stock[item.product] < item.quantity
            THEN /\ resp'[r] = [status |-> 400, error |-> "Not enough stock",
                                product |-> item.product, orderId |-> 0,
                                paymentRequired |-> FALSE]
                 /\ pc'[r] = "done"
                 /\ UNCHANGED <<stock, carts, shipments, orders>>
                 /\ (\A q \in Reqs \ {r} : pc[q] = "idle")
                    => \A j \in 1..idx[r] :
                          stock[cart[r][j].product] >= cart[r][j].quantity
            ELSE resp'[r] = NoResp /\ pc'[r] # "done"]_vars

\* C7 witness: a checkout answered "Not enough stock" for the second line of
\* a two-line cart, with the stock as it started, the cart as it was, and no
\* order or shipment.
C7_Witness ==
    \E r \in Reqs :
        /\ resp[r].error = "Not enough stock"
        /\ Len(carts[req[r].user].items) = 2
        /\ resp[r].product = carts[req[r].user].items[2].product
        /\ stock = initStock
        /\ orders = <<>> /\ shipments = <<>>

\* C8: a checkout of a user with no cart, or with a cart of no items,
\* answers 400 "Empty cart" and changes no stock, order, shipment or cart.
C8_EmptyCartNoEffect ==
    [][\A r \in Reqs :
          (pc[r] = "idle" /\ pc'[r] # "idle") =>
            LET c == carts[req'[r].user] IN
            (~c.exists \/ c.items = <<>>)
            => /\ resp'[r] = [status |-> 400, error |-> "Empty cart",
                              product |-> None, orderId |-> 0,
                              paymentRequired |-> FALSE]
               /\ pc'[r] = "done"
               /\ UNCHANGED <<stock, carts, shipments, orders>>]_vars

\* C8 witness: one checkout answered "Empty cart" for a user without a cart
\* and another for a user whose cart has no items.
C8_Witness ==
    \E r, q \in Reqs :
        /\ resp[r].error = "Empty cart" /\ ~carts[req[r].user].exists
        /\ resp[q].error = "Empty cart" /\ carts[req[q].user].exists
        /\ carts[req[q].user].items = <<>>
        /\ orders = <<>> /\ stock = initStock

\* Handler q has saved the decrement of some of its lines and not of all.
PartlyDecremented(q) ==
    /\ pc[q] \in {"decRead", "decSave"}
    /\ 0 < idx[q]
    /\ idx[q] < Len(cart[q])

\* The step in which handler r reads the stock of product p.
ReadsStock(r, p) ==
    /\ pc[r] \in {"validate", "decRead"}
    /\ pc'[r] # "failed"
    /\ pc'[r] # pc[r] \/ idx'[r] # idx[r]
    /\ cart[r][idx[r] + 1].product = p

\* C9: no checkout reads the stock of a product of another checkout's cart
\* while that checkout has decremented some of its lines and not all.
C9_DecrementsAtomic ==
    [][\A r, q \in Reqs :
          (r # q /\ PartlyDecremented(q))
          => \A j \in 1..Len(cart[q]) : ~ReadsStock(r, cart[q][j].product)]_vars

\* C10: every order's shipment exists and every shipment belongs to exactly
\* one order.
C10_OrderShipmentOneToOne ==
    /\ \A o \in DOMAIN orders : orders[o].shipment \in DOMAIN shipments
    /\ \A s \in DOMAIN shipments :
          Cardinality({o \in DOMAIN orders : orders[o].shipment = s}) = 1

\* C11: every order is stored with a paymentMethod of card, upi, netbanking
\* or cod, with paymentStatus Pending for cod and Processing for the other
\* three; every "order created" answer carries paymentRequired = (the method
\* is not cod); and a checkout naming any other method is rejected, so it
\* creates no order and is never answered "order created".
C11_PaymentMethodChecked ==
    /\ \A o \in DOMAIN orders :
          /\ orders[o].paymentMethod \in Recognised
          /\ orders[o].paymentStatus =
                IF orders[o].paymentMethod = "cod" THEN "Pending" ELSE "Processing"
    /\ \A r \in Reqs :
          /\ resp[r].status = 200
             => resp[r].paymentRequired = (req[r].paymentMethod # "cod")
          /\ (req[r] # NoReq /\ req[r].paymentMethod \notin Recognised)
             => r \notin DOMAIN orders /\ resp[r].status # 200

\* C12: no two shipments have the same tracking number, whatever the clock
\* read when they were created.
C12_TrackingNumbersUnique ==
    \A s, t \in DOMAIN shipments :
        s # t => shipments[s].trackingNumber # shipments[t].trackingNumber

\* The step in which update handler a saves and answers 200.
UpdateSaved(a) == upc[a] = "save" /\ upc'[a] = "idle" /\ uresp'[a] = 200

\* C13: a status update is atomic from its read to its write.  A request
\* that asks for the successor of the status it read, and answers success,
\* makes that very transition: at its write the shipment still has the status
\* it read.  So the outcome is that of the two requests run one after the
\* other: no write of one falls between the read and the write of the other,
\* and of two requests for the same target only one succeeds.
C13_UpdatesAtomic ==
    [][\A a \in Upds :
          (UpdateSaved(a) /\ <<ushipment[a].status, ureq[a].status>> \in StatusSuccessor)
          => shipments[ushipment[a].id].status = ushipment[a].status]_vars

C15_OrderImmutable ==
    [][\A o \in DOMAIN orders :
          /\ o \in DOMAIN orders'
          /\ orders'[o].user = orders[o].user
          /\ orders'[o].items = orders[o].items
          /\ orders'[o].total = orders[o].total
          /\ orders'[o].paymentMethod = orders[o].paymentMethod
          /\ orders'[o].shipment = orders[o].shipment]_vars

\* C15 witness: an order of one unit at the first price, whose product has
\* since been repriced and bought again by a later order, whose shipment has
\* been shipped, and whose user's cart has been filled again.
C15_Witness ==
    \E o, n \in DOMAIN orders :
        /\ o < n
        /\ orders[o].items[1].priceAtPurchase # price[orders[o].items[1].product]
        /\ stock[orders[o].items[1].product]
             < initStock[orders[o].items[1].product] - orders[o].items[1].quantity
        /\ shipments[orders[o].shipment].status = "Shipped"
        /\ carts[orders[o].user].items # <<>>
        /\ orders[o].total = 5

\* The callers allowed to update a shipment.
Privileged == {"admin"}

\* C16: a shipment's status changes only in the save of a status-update
\* request made by a privileged caller.
C16_OnlyPrivilegedUpdates ==
    [][\A s \in DOMAIN shipments :
          shipments'[s].status # shipments[s].status
          => \E a \in Upds :
                /\ upc[a] = "save" /\ upc'[a] = "idle"
                /\ ushipment[a].id = s
                /\ ureq[a].caller \in Privileged]_vars

\* C17: every order's paymentStatus is Pending or Processing, in every state
\* that checkouts, tracking reads and shipment status updates lead to.
C17_NeverPaid ==
    \A o \in DOMAIN orders : orders[o].paymentStatus \in {"Pending", "Processing"}

\* C17 witness: a cod order and a card order, one of them shipped since and
\* read by the tracking route.
C17_Witness ==
    \E o, n \in DOMAIN orders :
        /\ orders[o].paymentMethod = "cod" /\ orders[o].paymentStatus = "Pending"
        /\ orders[n].paymentMethod = "card" /\ orders[n].paymentStatus = "Processing"
        /\ shipments[orders[n].shipment].status = "Shipped"
        /\ tresp.order = n /\ tresp.shipmentStatus = "Shipped"

\* C18 (stock conservation): whenever every checkout that has arrived has
\* been answered, each product's stock is its initial stock less the units
\* of it over all orders.
C18_StockConserved ==
    (\A r \in Reqs : pc[r] \in {"idle", "done"})
    => \A p \in Products : stock[p] = initStock[p] - Sold(p)

\* C19: a checkout answered "order created" leaves its user's cart empty,
\* and of two checkout calls of one user, with no item added in between, only
\* the first creates an order: the cart's contents become one order.
C19_CartOrderedOnce ==
    /\ \A r \in Reqs :
          resp[r].status = 200 => carts[req[r].user].items = <<>>
    /\ \A r, q \in Reqs :
          (r < q /\ req[r] # NoReq /\ req[q].user = req[r].user
                 /\ r \in DOMAIN orders)
          => q \notin DOMAIN orders

\* The step in which checkout r clears its user's cart.
CartCleared(r) == pc[r] = "clearCart" /\ pc'[r] = "done"

\* C20 (no cart item is lost): what a checkout's clear takes out of the cart
\* is in the order of that checkout.  For every product, the units in the
\* cart just before the clear, which include every add completed since the
\* checkout read the cart, are units of the order or still in the cart after
\* the clear.
C20_NoCartItemLost ==
    [][\A r \in Reqs :
          CartCleared(r)
          => \A p \in Products :
                QuantityOf(carts[req[r].user].items, p)
                  <= QuantityOf(orders[r].items, p)
                     + QuantityOf(carts'[req[r].user].items, p)]_vars
====
